---------------------------- MODULE Spec2Model ----------------------------
(***************************************************************************)
(* EdgeCraft procedural GLB generators.                                    *)
(*                                                                         *)
(*   scripts/generate-all-doodads.py     create_box_glb, create_cylinder_glb *)
(*                                       and the 30-model batch driver     *)
(*   scripts/generate-placeholder-glb.py create_box_glb, create_cylinder_glb *)
(*                                       and the 6-model driver            *)
(*   scripts/convert-fbx-to-glb.py       convert_fbx_to_glb, on its own and *)
(*                                       in the loop of interactive_mode   *)
(*                                                                         *)
(* Numbers.  A Python float is modelled as a fixed-point integer counting  *)
(* thousandths (Scale): 0.3 is 300, 8.0 is 8000.  The inputs are chosen so *)
(* that size / 2 is again a whole number of thousandths.  math.cos and     *)
(* math.sin are evaluated to within one thousandth, and exactly at the     *)
(* multiples of a quarter turn (Python's cos(pi / 2) = 6e-17 is 0 here).   *)
(* The sign of a zero is not kept: the -0.0 that a negative radius gives   *)
(* for radius * 0.0 is packed as 0.0.  Bytes are integers 0..255, text is  *)
(* the sequence of its ASCII codes.                                        *)
(***************************************************************************)
EXTENDS Integers, Sequences, FiniteSets, TLC

(***************************************************************************)
(* Fixed-point arithmetic                                                  *)
(***************************************************************************)
\* thousandths per unit: the resolution at which a Python float is modelled
Scale == 1000

Abs(v) == IF v < 0 THEN -v ELSE v

\* Python's range(n) runs n times, and not at all for n <= 0
RangeLen(n) == IF n > 0 THEN n ELSE 0

\* a * b of two fixed-point numbers, rounded to the nearest thousandth
MulFix(a, b) ==
    LET p == a * b
    IN IF p >= 0 THEN (p + Scale \div 2) \div Scale
                 ELSE -((-p + Scale \div 2) \div Scale)

\* cos(pi/2 * r / n) for 0 <= r <= n, in thousandths: the Taylor polynomial
\* 1 - x^2/2 (1 - x^2/12 (1 - x^2/30 (1 - x^2/56))) in units of 1/10000
CosQuarter(r, n) ==
    LET S  == 10 * Scale
        x  == (15708 * r) \div n
        x2 == (x * x) \div S
        t4 == S - x2 \div 56
        t3 == S - ((x2 * t4) \div S) \div 30
        t2 == S - ((x2 * t3) \div S) \div 12
        t1 == S - ((x2 * t2) \div S) \div 2
    IN IF r = 0 THEN Scale
       ELSE IF r = n THEN 0
       ELSE (t1 + 5) \div 10

\* math.cos(2 * math.pi * i / segments), in thousandths, for 0 <= i < segments
Cos(i, segments) ==
    LET q == (4 * i) \div segments
        r == (4 * i) % segments
    IN CASE q = 0 -> CosQuarter(r, segments)
         [] q = 1 -> -CosQuarter(segments - r, segments)
         [] q = 2 -> -CosQuarter(r, segments)
         [] OTHER -> CosQuarter(segments - r, segments)

\* math.sin(2 * math.pi * i / segments), in thousandths, for 0 <= i < segments
Sin(i, segments) ==
    LET q == (4 * i) \div segments
        r == (4 * i) % segments
    IN CASE q = 0 -> CosQuarter(segments - r, segments)
         [] q = 1 -> CosQuarter(r, segments)
         [] q = 2 -> -CosQuarter(segments - r, segments)
         [] OTHER -> -CosQuarter(r, segments)

(***************************************************************************)
(* struct.pack: binary encodings                                           *)
(***************************************************************************)
\* a >= Scale: <<e, den>> with den = Scale * 2^e <= a < 2 * den
RECURSIVE ExpUp(_, _, _)
ExpUp(a, den, e) == IF 2 * den <= a THEN ExpUp(a, 2 * den, e + 1) ELSE <<e, den>>

\* 0 < a < Scale: <<e, num>> with num = a * 2^(-e), Scale <= num < 2 * Scale
RECURSIVE ExpDown(_, _)
ExpDown(num, e) == IF num >= Scale THEN <<e, num>> ELSE ExpDown(2 * num, e - 1)

\* the binary exponent e of a / Scale and num, den with
\* a / Scale = 2^e * num / den, 1 <= num / den < 2
Normalize(a) ==
    IF a >= Scale
    THEN [e |-> ExpUp(a, Scale, 0)[1], num |-> a, den |-> ExpUp(a, Scale, 0)[2]]
    ELSE [e |-> ExpDown(a, 0)[1], num |-> ExpDown(a, 0)[2], den |-> Scale]

\* the 23 fraction bits of num / den (1 <= num / den < 2) by long division,
\* 8 + 8 + 7 bits at a time: <<bits, remainder>>
Mantissa(num, den) ==
    LET r0 == num - den
        q1 == (r0 * 256) \div den
        r1 == (r0 * 256) % den
        q2 == (r1 * 256) \div den
        r2 == (r1 * 256) % den
        q3 == (r2 * 128) \div den
        r3 == (r2 * 128) % den
    IN << q1 * 32768 + q2 * 128 + q3, r3 >>

\* the mantissa rounded to nearest, ties to even; 8388608 = 2^23 carries
\* into the exponent
Rounded(num, den) ==
    LET m0  == Mantissa(num, den)[1]
        rem == Mantissa(num, den)[2]
    IN IF (2 * rem > den) \/ (2 * rem = den /\ m0 % 2 = 1) THEN m0 + 1 ELSE m0

\* the four bytes of sign, biased exponent E and 23-bit fraction m, least
\* significant first
Float32Bytes(sign, E, m) ==
    << m % 256,
       (m \div 256) % 256,
       (E % 2) * 128 + (m \div 65536),
       sign * 128 + (E \div 2) >>

\* struct.pack('f', v): IEEE-754 binary32 of v / Scale
PackF(v) ==
    IF v = 0 THEN <<0, 0, 0, 0>>
    ELSE IF Rounded(Normalize(Abs(v)).num, Normalize(Abs(v)).den) = 8388608
    THEN Float32Bytes(IF v < 0 THEN 1 ELSE 0, Normalize(Abs(v)).e + 128, 0)
    ELSE Float32Bytes(IF v < 0 THEN 1 ELSE 0, Normalize(Abs(v)).e + 127,
                      Rounded(Normalize(Abs(v)).num, Normalize(Abs(v)).den))

\* struct.pack('H', n): two bytes, least significant first (0 <= n <= 65535)
PackH(n) == << n % 256, n \div 256 >>

\* struct.pack('<I', n): four bytes, least significant first
PackI(n) == << n % 256, (n \div 256) % 256, (n \div 65536) % 256, n \div 16777216 >>

\* struct.unpack('<I', b)
UnpackI(b) == b[1] + 256 * b[2] + 65536 * b[3] + 16777216 * b[4]

\* struct.pack(f'{len(values)}f', *values)
PackFloats(values) ==
    [j \in 1..(4 * Len(values)) |-> PackF(values[(j + 3) \div 4])[((j - 1) % 4) + 1]]

\* struct.pack(f'{len(values)}H', *values)
PackShorts(values) ==
    [j \in 1..(2 * Len(values)) |-> PackH(values[(j + 1) \div 2])[((j - 1) % 2) + 1]]

\* the largest value the 'H' format takes; a larger one raises struct.error
USHRT_MAX == 65535

(***************************************************************************)
(* json.dumps(..., separators=(',', ':')).encode('utf-8')                  *)
(*                                                                         *)
(* A JSON value is [t |-> tag, v |-> value]: an object holds its           *)
(* <<key, value>> pairs in insertion order, a string holds its ASCII       *)
(* codes, an int its value, a float its value in thousandths.  The names   *)
(* given to the generators are plain [a-z0-9_] text, which json.dumps      *)
(* copies without escapes.                                                 *)
(***************************************************************************)
JObj(pairs)   == [t |-> "obj",   v |-> pairs]
JArr(items)   == [t |-> "arr",   v |-> items]
JStr(text)    == [t |-> "str",   v |-> text]
JInt(n)      == [t |-> "int",   v |-> n]
JFloat(x)    == [t |-> "float", v |-> x]

\* the ASCII codes of the keys of the glTF document
KeyBytes ==
    [ asset |-> <<97, 115, 115, 101, 116>>,
      version |-> <<118, 101, 114, 115, 105, 111, 110>>,
      generator |-> <<103, 101, 110, 101, 114, 97, 116, 111, 114>>,
      copyright |-> <<99, 111, 112, 121, 114, 105, 103, 104, 116>>,
      scene |-> <<115, 99, 101, 110, 101>>,
      scenes |-> <<115, 99, 101, 110, 101, 115>>,
      nodes |-> <<110, 111, 100, 101, 115>>,
      mesh |-> <<109, 101, 115, 104>>,
      name |-> <<110, 97, 109, 101>>,
      meshes |-> <<109, 101, 115, 104, 101, 115>>,
      primitives |-> <<112, 114, 105, 109, 105, 116, 105, 118, 101, 115>>,
      attributes |-> <<97, 116, 116, 114, 105, 98, 117, 116, 101, 115>>,
      POSITION |-> <<80, 79, 83, 73, 84, 73, 79, 78>>,
      NORMAL |-> <<78, 79, 82, 77, 65, 76>>,
      indices |-> <<105, 110, 100, 105, 99, 101, 115>>,
      material |-> <<109, 97, 116, 101, 114, 105, 97, 108>>,
      accessors |-> <<97, 99, 99, 101, 115, 115, 111, 114, 115>>,
      bufferView |-> <<98, 117, 102, 102, 101, 114, 86, 105, 101, 119>>,
      componentType |->
        <<99, 111, 109, 112, 111, 110, 101, 110, 116, 84, 121, 112, 101>>,
      count |-> <<99, 111, 117, 110, 116>>,
      type |-> <<116, 121, 112, 101>>,
      max |-> <<109, 97, 120>>,
      min |-> <<109, 105, 110>>,
      bufferViews |-> <<98, 117, 102, 102, 101, 114, 86, 105, 101, 119, 115>>,
      buffer |-> <<98, 117, 102, 102, 101, 114>>,
      byteOffset |-> <<98, 121, 116, 101, 79, 102, 102, 115, 101, 116>>,
      byteLength |-> <<98, 121, 116, 101, 76, 101, 110, 103, 116, 104>>,
      target |-> <<116, 97, 114, 103, 101, 116>>,
      buffers |-> <<98, 117, 102, 102, 101, 114, 115>>,
      materials |-> <<109, 97, 116, 101, 114, 105, 97, 108, 115>>,
      pbrMetallicRoughness |->
        <<112, 98, 114, 77, 101, 116, 97, 108, 108, 105, 99, 82, 111, 117, 103, 
          104, 110, 101, 115, 115>>,
      baseColorFactor |->
        <<98, 97, 115, 101, 67, 111, 108, 111, 114, 70, 97, 99, 116, 111, 114>>,
      metallicFactor |->
        <<109, 101, 116, 97, 108, 108, 105, 99, 70, 97, 99, 116, 111, 114>>,
      roughnessFactor |->
        <<114, 111, 117, 103, 104, 110, 101, 115, 115, 70, 97, 99, 116, 111, 
          114>> ]

\* the ASCII codes of the decimal digits of n >= 0
RECURSIVE Digits(_)
Digits(n) == IF n < 10 THEN <<48 + n>> ELSE Digits(n \div 10) \o <<48 + (n % 10)>>

\* str(n) of an int
IntRepr(n) == IF n < 0 THEN <<45>> \o Digits(-n) ELSE Digits(n)

\* the digits of f thousandths (0 <= f < Scale) after the point: trailing
\* zeros dropped, one digit kept
FracDigits(f) ==
    LET d1 == f \div 100
        d2 == (f \div 10) % 10
        d3 == f % 10
    IN IF d3 # 0 THEN <<48 + d1, 48 + d2, 48 + d3>>
       ELSE IF d2 # 0 THEN <<48 + d1, 48 + d2>>
       ELSE <<48 + d1>>

\* repr(x) of a float: the shortest decimal that reads back as x ("0.75",
\* "8.0", "-0.3")
FloatRepr(x) ==
    (IF x < 0 THEN <<45>> ELSE <<>>)
        \o Digits(Abs(x) \div Scale) \o <<46>> \o FracDigits(Abs(x) % Scale)

RECURSIVE JsonDumps(_)
RECURSIVE JsonItems(_, _)
RECURSIVE JsonPairs(_, _)

\* the items of an array from the k-th on, separated by ","
JsonItems(items, k) ==
    IF k > Len(items) THEN <<>>
    ELSE (IF k > 1 THEN <<44>> ELSE <<>>) \o JsonDumps(items[k]) \o JsonItems(items, k + 1)

\* the "key":value pairs of an object from the k-th on, separated by ","
JsonPairs(pairs, k) ==
    IF k > Len(pairs) THEN <<>>
    ELSE (IF k > 1 THEN <<44>> ELSE <<>>)
         \o <<34>> \o KeyBytes[pairs[k][1]] \o <<34, 58>>
         \o JsonDumps(pairs[k][2]) \o JsonPairs(pairs, k + 1)

JsonDumps(j) ==
    CASE j.t = "obj"   -> <<123>> \o JsonPairs(j.v, 1) \o <<125>>
      [] j.t = "arr"   -> <<91>> \o JsonItems(j.v, 1) \o <<93>>
      [] j.t = "str"   -> <<34>> \o j.v \o <<34>>
      [] j.t = "int"   -> IntRepr(j.v)
      [] j.t = "float" -> FloatRepr(j.v)

\* gltf_json[key] of an object
JGet(j, key) ==
    LET k == CHOOSE k \in 1..Len(j.v) : j.v[k][1] = key
    IN j.v[k][2]

(***************************************************************************)
(* Geometry                                                                *)
(***************************************************************************)
\* range(n)
Range(n) == 0..(n - 1)

\* for i in range(n): list.extend(body[i]), each body[i] holding w items
ForExtend(n, w, body) ==
    [j \in 1..(RangeLen(n) * w) |-> body[(j - 1) \div w][((j - 1) % w) + 1]]

\* a list repetition that comes one copy short
TimesOneShort(v, w, n) == [j \in 1..(w * (n - 1)) |-> v[((j - 1) % w) + 1]]

\* [v] * n for a list v of w items
Times(v, w, n) == [j \in 1..(w * n) |-> v[((j - 1) % w) + 1]]

\* a size argument: a number, or a tuple of three numbers
Scalar(v)    == [kind |-> "scalar", v |-> <<v>>]
Tuple(a, b, c) == [kind |-> "tuple", v |-> <<a, b, c>>]

\* generate-all-doodads.py, create_box_glb: sx, sy, sz
doodads_box_half(size) ==
    IF size.kind = "scalar"
    THEN << size.v[1] \div 2, size.v[1] \div 2, size.v[1] \div 2 >>
    ELSE << size.v[1] \div 2, size.v[2] \div 2, size.v[3] \div 2 >>

\* box corners that use the x half extent on every axis
doodads_box_vertices_cubic(sx, sy, sz) ==
    << -sx, -sx, -sx,  sx, -sx, -sx,  sx, sx, -sx,  -sx, sx, -sx,
       -sx, -sx,  sx,  sx, -sx,  sx,  sx, sx,  sx,  -sx, sx,  sx >>

\* generate-all-doodads.py, create_box_glb: vertices
doodads_box_vertices(sx, sy, sz) ==
    << -sx, -sy, -sz,  sx, -sy, -sz,  sx, sy, -sz,  -sx, sy, -sz,
       -sx, -sy,  sz,  sx, -sy,  sz,  sx, sy,  sz,  -sx, sy,  sz >>

\* generate-all-doodads.py, create_box_glb: indices
doodads_box_indices ==
    << 0, 1, 2, 2, 3, 0,
       5, 4, 7, 7, 6, 5,
       3, 2, 6, 6, 7, 3,
       4, 5, 1, 1, 0, 4,
       1, 5, 6, 6, 2, 1,
       4, 0, 3, 3, 7, 4 >>

\* generate-all-doodads.py, create_box_glb: normals
doodads_box_normals ==
    Times(<<0, 0, -Scale>>, 3, 4) \o Times(<<0, 0, Scale>>, 3, 4)

\* generate-placeholder-glb.py, create_box_glb: vertices
placeholder_box_vertices(s) ==
    << -s, -s, -s,
        s, -s, -s,
        s,  s, -s,
       -s,  s, -s,
       -s, -s,  s,
        s, -s,  s,
        s,  s,  s,
       -s,  s,  s >>

\* generate-placeholder-glb.py, create_box_glb: indices
placeholder_box_indices ==
    << 0, 1, 2, 2, 3, 0,
       5, 4, 7, 7, 6, 5,
       3, 2, 6, 6, 7, 3,
       4, 5, 1, 1, 0, 4,
       1, 5, 6, 6, 2, 1,
       4, 0, 3, 3, 7, 4 >>

\* generate-placeholder-glb.py, create_box_glb: normals
placeholder_box_normals ==
    << 0, 0, -Scale,
       0, 0, -Scale,
       0, 0, -Scale,
       0, 0, -Scale,
       0, 0,  Scale,
       0, 0,  Scale,
       0, 0,  Scale,
       0, 0,  Scale >>

\* x = radius * math.cos(angle) for angle = 2 * math.pi * i / segments
RimX(radius, i, segments) == MulFix(radius, Cos(i, segments))

\* z = radius * math.sin(angle)
RimZ(radius, i, segments) == MulFix(radius, Sin(i, segments))

\* a vertex list whose side pairs put the top vertex before the bottom one
doodads_vertices_top_first(height, radius, segments) ==
    <<0, 0, 0>> \o <<0, height, 0>>
    \o ForExtend(segments, 3,
         [i \in Range(segments) |->
            << RimX(radius, i, segments), 0, RimZ(radius, i, segments) >>])
    \o ForExtend(segments, 3,
         [i \in Range(segments) |->
            << RimX(radius, i, segments), height, RimZ(radius, i, segments) >>])
    \o ForExtend(segments, 6,
         [i \in Range(segments) |->
            << RimX(radius, i, segments), height, RimZ(radius, i, segments),
               RimX(radius, i, segments), 0, RimZ(radius, i, segments) >>])

\* generate-all-doodads.py, create_cylinder_glb: vertices
doodads_cylinder_vertices(height, radius, segments) ==
    <<0, 0, 0>> \o <<0, height, 0>>
    \o ForExtend(segments, 3,
         [i \in Range(segments) |-> << RimX(radius, i, segments), 0, RimZ(radius, i, segments) >>])
    \o ForExtend(segments, 3,
         [i \in Range(segments) |-> << RimX(radius, i, segments), height, RimZ(radius, i, segments) >>])
    \o ForExtend(segments, 6,
         [i \in Range(segments) |-> << RimX(radius, i, segments), 0, RimZ(radius, i, segments),
                       RimX(radius, i, segments), height, RimZ(radius, i, segments) >>])

\* generate-all-doodads.py, create_cylinder_glb: normals
doodads_cylinder_normals(segments) ==
    <<0, -Scale, 0>> \o <<0, Scale, 0>>
    \o ForExtend(segments, 3, [i \in Range(segments) |-> <<0, -Scale, 0>>])
    \o ForExtend(segments, 3, [i \in Range(segments) |-> <<0, Scale, 0>>])
    \o ForExtend(segments, 6,
         [i \in Range(segments) |-> << Cos(i, segments), 0, Sin(i, segments),
                       Cos(i, segments), 0, Sin(i, segments) >>])

\* a base_idx that counts three ring vertices per segment instead of two
base_idx_three_rings(segments) == 2 + 3 * segments

\* generate-all-doodads.py, create_cylinder_glb: base_idx
doodads_base_idx(segments) == 2 + 2 * segments

\* an index list that stops after the caps, without the side quads
doodads_indices_caps_only(segments) ==
    ForExtend(segments, 6,
        [i \in Range(segments) |->
            << 0, 2 + ((i + 1) % segments), 2 + i,
               1, 2 + segments + i, 2 + segments + ((i + 1) % segments) >>])

\* generate-all-doodads.py, create_cylinder_glb: indices.  One loop emits the
\* bottom-cap and the top-cap triangle of step i, a second loop the side quads.
doodads_cylinder_indices(segments) ==
    ForExtend(segments, 6,
        [i \in Range(segments) |-> LET next_i == (i + 1) % segments
                   IN << 0, 2 + next_i, 2 + i,
                         1, 2 + segments + i, 2 + segments + next_i >>])
    \o ForExtend(segments, 6,
        [i \in Range(segments) |-> LET next_i == (i + 1) % segments
                       v0 == doodads_base_idx(segments) + i * 2
                       v1 == doodads_base_idx(segments) + i * 2 + 1
                       v2 == doodads_base_idx(segments) + next_i * 2
                       v3 == doodads_base_idx(segments) + next_i * 2 + 1
                   IN << v0, v2, v1, v1, v2, v3 >>])

\* generate-placeholder-glb.py, create_cylinder_glb: vertices
placeholder_cylinder_vertices(height, radius, segments) ==
    <<0, 0, 0>>
    \o <<0, height, 0>>
    \o ForExtend(segments, 3,
         [i \in Range(segments) |-> << RimX(radius, i, segments), 0, RimZ(radius, i, segments) >>])
    \o ForExtend(segments, 3,
         [i \in Range(segments) |-> << RimX(radius, i, segments), height, RimZ(radius, i, segments) >>])
    \o ForExtend(segments, 6,
         [i \in Range(segments) |-> << RimX(radius, i, segments), 0, RimZ(radius, i, segments),
                       RimX(radius, i, segments), height, RimZ(radius, i, segments) >>])

\* normals whose top-rim entries point down like the bottom-rim ones
placeholder_normals_top_rim_down(segments) ==
    <<0, -Scale, 0>>
    \o <<0, Scale, 0>>
    \o ForExtend(segments, 3, [i \in Range(segments) |-> <<0, -Scale, 0>>])
    \o ForExtend(segments, 3, [i \in Range(segments) |-> <<0, -Scale, 0>>])
    \o ForExtend(segments, 6,
         [i \in Range(segments) |-> << Cos(i, segments), 0, Sin(i, segments),
                                       Cos(i, segments), 0, Sin(i, segments) >>])

\* generate-placeholder-glb.py, create_cylinder_glb: normals
placeholder_cylinder_normals(segments) ==
    <<0, -Scale, 0>>
    \o <<0, Scale, 0>>
    \o ForExtend(segments, 3, [i \in Range(segments) |-> <<0, -Scale, 0>>])
    \o ForExtend(segments, 3, [i \in Range(segments) |-> <<0, Scale, 0>>])
    \o ForExtend(segments, 6,
         [i \in Range(segments) |-> << Cos(i, segments), 0, Sin(i, segments),
                       Cos(i, segments), 0, Sin(i, segments) >>])

\* generate-placeholder-glb.py, create_cylinder_glb: base_idx
placeholder_base_idx(segments) == 2 + 2 * segments

\* an index list whose bottom-cap triangles run (0, 2 + i, 2 + next_i)
placeholder_indices_bottom_turned(segments) ==
    ForExtend(segments, 3,
        [i \in Range(segments) |-> << 0, 2 + i, 2 + ((i + 1) % segments) >>])
    \o ForExtend(segments, 3,
        [i \in Range(segments) |->
            << 1, 2 + segments + i, 2 + segments + ((i + 1) % segments) >>])
    \o ForExtend(segments, 6,
        [i \in Range(segments) |->
            << 2 + 2 * segments + i * 2,
               2 + 2 * segments + ((i + 1) % segments) * 2,
               2 + 2 * segments + i * 2 + 1,
               2 + 2 * segments + i * 2 + 1,
               2 + 2 * segments + ((i + 1) % segments) * 2,
               2 + 2 * segments + ((i + 1) % segments) * 2 + 1 >>])

\* generate-placeholder-glb.py, create_cylinder_glb: indices.  Three loops:
\* the bottom cap, the top cap, the side quads.
placeholder_cylinder_indices(segments) ==
    ForExtend(segments, 3,
        [i \in Range(segments) |-> LET next_i == (i + 1) % segments
                   IN << 0, 2 + next_i, 2 + i >>])
    \o ForExtend(segments, 3,
        [i \in Range(segments) |-> LET next_i == (i + 1) % segments
                   IN << 1, 2 + segments + i, 2 + segments + next_i >>])
    \o ForExtend(segments, 6,
        [i \in Range(segments) |-> LET next_i == (i + 1) % segments
                       v0 == placeholder_base_idx(segments) + i * 2
                       v1 == placeholder_base_idx(segments) + i * 2 + 1
                       v2 == placeholder_base_idx(segments) + next_i * 2
                       v3 == placeholder_base_idx(segments) + next_i * 2 + 1
                   IN << v0, v2, v1, v1, v2, v3 >>])

(***************************************************************************)
(* The container encoder.  Its statements stand four times in the source,  *)
(* once in each create_*_glb; the copies differ in the asset strings and   *)
(* the material suffix of the two scripts (Style) and in the bounds given  *)
(* to accessor 0.                                                          *)
(***************************************************************************)
\* "2.0"
Text_2_0 == <<50, 46, 48>>
\* "VEC3"
Text_VEC3 == <<86, 69, 67, 51>>
\* "SCALAR"
Text_SCALAR == <<83, 67, 65, 76, 65, 82>>

\* the strings of generate-all-doodads.py: "EdgeCraft", "CC0 1.0", "_mat"
doodads_style ==
    [ generator |-> <<69, 100, 103, 101, 67, 114, 97, 102, 116>>,
      copyright |-> <<67, 67, 48, 32, 49, 46, 48>>,
      suffix    |-> <<95, 109, 97, 116>> ]

\* the strings of generate-placeholder-glb.py: "EdgeCraft Procedural
\* Generator", "CC0 1.0 - Public Domain", "_material"
placeholder_style ==
    [ generator |-> <<69, 100, 103, 101, 67, 114, 97, 102, 116, 32, 80, 114, 111,
                     99, 101, 100, 117, 114, 97, 108, 32, 71, 101, 110, 101,
                     114, 97, 116, 111, 114>>,
      copyright |-> <<67, 67, 48, 32, 49, 46, 48, 32, 45, 32, 80, 117, 98, 108,
                     105, 99, 32, 68, 111, 109, 97, 105, 110>>,
      suffix    |-> <<95, 109, 97, 116, 101, 114, 105, 97, 108>> ]

\* a padding length that adds a whole word to an aligned chunk
PadLenWholeWord(n) == 4 - (n % 4)

\* padding_length = (4 - len(binary_data) % 4) % 4, and json_padding alike
PadLen(n) == (4 - (n % 4)) % 4

\* b'\x00' * n, b' ' * n
Bytes(b, n) == [j \in 1..n |-> b]

\* "byteOffset" of buffer view 1, the normals
NormalsOffset(vertex_data) == Len(vertex_data)

\* an offset of the indices view that leaves the normals out
IndicesOffsetOverNormals(vertex_data, normals_data) == Len(vertex_data)

\* "byteOffset" of buffer view 2, the indices
IndicesOffset(vertex_data, normals_data) == Len(vertex_data) + Len(normals_data)

\* the gltf_json dict
GltfJson(style, name, color, vertices, normals, indices, max, min, vertex_data, normals_data, indices_data, binary_data) ==
    JObj(<<
      <<"asset", JObj(<< <<"version", JStr(Text_2_0)>>,
                         <<"generator", JStr(style.generator)>>,
                         <<"copyright", JStr(style.copyright)>> >>)>>,
      <<"scene", JInt(0)>>,
      <<"scenes", JArr(<< JObj(<< <<"nodes", JArr(<<JInt(0)>>)>> >>) >>)>>,
      <<"nodes", JArr(<< JObj(<< <<"mesh", JInt(0)>>, <<"name", JStr(name)>> >>) >>)>>,
      <<"meshes", JArr(<< JObj(<<
          <<"name", JStr(name)>>,
          <<"primitives", JArr(<< JObj(<<
              <<"attributes", JObj(<< <<"POSITION", JInt(0)>>,
                                      <<"NORMAL", JInt(1)>> >>)>>,
              <<"indices", JInt(2)>>,
              <<"material", JInt(0)>> >>) >>)>> >>) >>)>>,
      <<"accessors", JArr(<<
          JObj(<< <<"bufferView", JInt(0)>>, <<"componentType", JInt(5126)>>,
                  <<"count", JInt(Len(vertices) \div 3)>>, <<"type", JStr(Text_VEC3)>>,
                  <<"max", JArr(max)>>, <<"min", JArr(min)>> >>),
          JObj(<< <<"bufferView", JInt(1)>>, <<"componentType", JInt(5126)>>,
                  <<"count", JInt(Len(normals) \div 3)>>, <<"type", JStr(Text_VEC3)>> >>),
          JObj(<< <<"bufferView", JInt(2)>>, <<"componentType", JInt(5123)>>,
                  <<"count", JInt(Len(indices))>>, <<"type", JStr(Text_SCALAR)>> >>) >>)>>,
      <<"bufferViews", JArr(<<
          JObj(<< <<"buffer", JInt(0)>>, <<"byteOffset", JInt(0)>>,
                  <<"byteLength", JInt(Len(vertex_data))>>, <<"target", JInt(34962)>> >>),
          JObj(<< <<"buffer", JInt(0)>>, <<"byteOffset", JInt(NormalsOffset(vertex_data))>>,
                  <<"byteLength", JInt(Len(normals_data))>>, <<"target", JInt(34962)>> >>),
          JObj(<< <<"buffer", JInt(0)>>,
                  <<"byteOffset", JInt(IndicesOffset(vertex_data, normals_data))>>,
                  <<"byteLength", JInt(Len(indices_data))>>, <<"target", JInt(34963)>> >>) >>)>>,
      <<"buffers", JArr(<< JObj(<< <<"byteLength", JInt(Len(binary_data))>> >>) >>)>>,
      <<"materials", JArr(<< JObj(<<
          <<"name", JStr(name \o style.suffix)>>,
          <<"pbrMetallicRoughness", JObj(<<
              <<"baseColorFactor", JArr(<< JFloat(color[1]), JFloat(color[2]),
                                           JFloat(color[3]), JFloat(Scale) >>)>>,
              <<"metallicFactor", JFloat(0)>>,
              <<"roughnessFactor", JFloat(800)>> >>)>> >>) >>)>>
    >>)

\* a total length that leaves the two chunk headers out
TotalLengthNoChunkHeaders(json_data, binary_data) ==
    12 + Len(json_data) + Len(binary_data)

\* total_length = 12 + 8 + len(json_data) + 8 + len(binary_data)
TotalLength(json_data, binary_data) == 12 + 8 + Len(json_data) + 8 + Len(binary_data)

\* 0x46546C67, "glTF"
GLB_MAGIC == 1179937895
\* the container version
GLB_VERSION == 2
\* 0x4E4F534A, "JSON"
JSON_CHUNK_TYPE == 1313821514
\* 0x004E4942, "BIN\0"
BIN_CHUNK_TYPE == 5130562

\* a container whose chunk headers put the type before the length
PackGlbTypeFirst(total_length, json_data, binary_data) ==
    PackI(GLB_MAGIC) \o PackI(GLB_VERSION) \o PackI(total_length)
    \o PackI(JSON_CHUNK_TYPE) \o PackI(Len(json_data))
    \o json_data
    \o PackI(BIN_CHUNK_TYPE) \o PackI(Len(binary_data))
    \o binary_data

\* the five struct.pack / += statements that assemble glb
PackGlb(total_length, json_data, binary_data) ==
    PackI(GLB_MAGIC) \o PackI(GLB_VERSION) \o PackI(total_length)
    \o PackI(Len(json_data)) \o PackI(JSON_CHUNK_TYPE)
    \o json_data
    \o PackI(Len(binary_data)) \o PackI(BIN_CHUNK_TYPE)
    \o binary_data

\* the locals of a create_*_glb call before its first statement ("none"), or
\* the frame an exception left, its locals gone
Raised(exc) ==
    [ exc |-> exc, half |-> <<>>, vertices |-> <<>>, indices |-> <<>>,
      normals |-> <<>>, vertex_data |-> <<>>, indices_data |-> <<>>,
      normals_data |-> <<>>, binary_data |-> <<>>, padding_length |-> 0,
      gltf_json |-> JObj(<<>>), json_data |-> <<>>, json_padding |-> 0,
      total_length |-> 0, glb |-> <<>> ]

\* a frame whose three lists are the ones the previous call filled: lists
\* that outlive the call, as mutable default arguments do
FrameSharingLists(previous) ==
    [ Raised("none") EXCEPT !.vertices = previous.vertices,
                            !.indices = previous.indices,
                            !.normals = previous.normals ]

\* the frame of a call that starts: every call binds its own locals, and
\* create_cylinder_glb opens with vertices = [], indices = [], normals = [],
\* three new lists; nothing the previous call left is in it
NewFrame(previous) == Raised("none")

\* -x of a float x # 0
Neg(x) == -x

\* generate-all-doodads.py, create_box_glb: "max" and "min" of accessor 0
doodads_box_bounds(sx, sy, sz) ==
    [ max |-> << JFloat(sx), JFloat(sy), JFloat(sz) >>,
      min |-> << JFloat(Neg(sx)), JFloat(Neg(sy)), JFloat(Neg(sz)) >> ]

\* generate-placeholder-glb.py, create_box_glb: "max" and "min" of accessor 0
placeholder_box_bounds(s) ==
    [ max |-> << JFloat(s), JFloat(s), JFloat(s) >>,
      min |-> << JFloat(Neg(s)), JFloat(Neg(s)), JFloat(Neg(s)) >> ]

\* generate-all-doodads.py, create_cylinder_glb: "max" and "min" of accessor 0
doodads_cylinder_bounds(height, radius) ==
    [ max |-> << JFloat(radius), JFloat(height), JFloat(radius) >>,
      min |-> << JFloat(Neg(radius)), JInt(0), JFloat(Neg(radius)) >> ]

\* generate-placeholder-glb.py, create_cylinder_glb: "max" and "min" of accessor 0
placeholder_cylinder_bounds(height, radius) ==
    [ max |-> << JFloat(radius), JFloat(height), JFloat(radius) >>,
      min |-> << JFloat(Neg(radius)), JInt(0), JFloat(Neg(radius)) >> ]

(***************************************************************************)
(* Inputs                                                                  *)
(***************************************************************************)
\* the largest number of segments of the enumerated cylinders
MaxSegments == 8

\* the largest number of entries of a driver's model table
MaxBatch == 2

\* the first number of segments whose 2 + 4 * segments vertices take an
\* index above USHRT_MAX
OverflowSegments == (USHRT_MAX - 2) \div 4 + 1

\* (name, colour) pairs: "t", "ab", "box", "tree"
Labels ==
    { << <<116>>, <<400, 300, 200>> >>,
      << <<97, 98>>, <<Scale, 0, Scale>> >>,
      << <<98, 111, 120>>, <<400, 300, 200>> >>,
      << <<116, 114, 101, 101>>, <<Scale, 0, Scale>> >> }

\* box sizes: 1.0, 1.5, 0.5 and the per-axis (3.0, 1.5, 0.2)
Sizes == { Scalar(1000), Scalar(1500), Scalar(500), Tuple(3000, 1500, 200) }

Heights == { 4000, 1500, 0 }
Radii == { 500, 300, -500 }

BoxCall(label, size) ==
    [ fn |-> "create_box_glb", name |-> label[1], color |-> label[2],
      size |-> size, height |-> 0, radius |-> 0, segments |-> 0 ]

CylinderCall(label, height, radius, segments) ==
    [ fn |-> "create_cylinder_glb", name |-> label[1], color |-> label[2],
      size |-> Scalar(0), height |-> height, radius |-> radius,
      segments |-> segments ]

\* no call made yet
NoCall ==
    [ fn |-> "none", name |-> <<>>, color |-> <<0, 0, 0>>, size |-> Scalar(0),
      height |-> 0, radius |-> 0, segments |-> 0 ]

\* the calls a function-level run draws from
Calls ==
    { BoxCall(l, z) : l \in Labels, z \in Sizes }
    \cup { CylinderCall(l, h, r, n) :
             l \in Labels, h \in Heights, r \in Radii, n \in (-1)..MaxSegments }
    \cup { CylinderCall(<< <<116>>, <<400, 300, 200>> >>, 4000, 500, OverflowSegments) }

\* the table entries a driver run draws from
DriverCalls ==
    { BoxCall(<< <<116>>, <<400, 300, 200>> >>, Scalar(1000)),
      CylinderCall(<< <<116>>, <<400, 300, 200>> >>, 4000, 500, 3),
      CylinderCall(<< <<116>>, <<400, 300, 200>> >>, 4000, 500, OverflowSegments) }

(***************************************************************************)
(* State                                                                   *)
(***************************************************************************)
VARIABLES
    script,     \* the script that runs: "doodads" or "placeholder"
    dpc,        \* where the script's __main__ block stands ("none": no driver,
                \* a single call of a create_*_glb)
    pc,         \* where the create_*_glb call stands
    call,       \* the arguments of the latest create_*_glb call
    frame,      \* its locals, or the exception that left it
    models,     \* driver: the table entries generated so far, each the request
                \* that names the entry with the glb_data returned for it
    k,          \* driver: the number of the table entry to write next
    files,      \* driver: the output files, by table entry
    handle,     \* driver: the entry whose file is open, 0 when none is
    ipc,        \* converter: where interactive_mode stands ("none": not run)
    selections, \* converter: the FBX file chosen for each output, 0 for None
    at,         \* converter: the selection the conversion loop has reached
    success_count,  \* converter: conversions that returned True
    cpc,        \* converter: where the convert_fbx_to_glb call stands
    args,       \* converter: fbx_path and glb_path of the latest call
    temp_script,    \* converter: the file public/assets/.downloads/.blender_convert.py
    result,     \* converter: how subprocess.run ended
    returned,   \* converter: what the latest call returned ("none": nothing yet)
    stdout,     \* converter: the encoding of sys.stdout
    locale,     \* converter: the locale encoding, which write_text uses
    pending     \* converter: the exception in flight in the latest call, or
                \* the one that left it ("none": none)

convertVars ==
    << ipc, selections, at, success_count, cpc, args, temp_script, result, returned,
       stdout, locale, pending >>

vars == << script, dpc, pc, call, frame, models, k, files, handle, convertVars >>

driverVars == << dpc, models, k, files, handle >>

\* a file left by an earlier run: the four bytes "glTF"
OldFile == [exists |-> TRUE, data |-> <<103, 108, 84, 70>>]
NoFile == [exists |-> FALSE, data |-> <<>>]

\* the output files before the run: the first is there from an earlier run,
\* the others are not
InitialFiles == [n \in 1..MaxBatch |-> IF n = 1 THEN OldFile ELSE NoFile]

\* the temporary Blender script: absent
NoScript == [exists |-> FALSE, text |-> << 0, 0 >>]

\* subprocess.run has not ended
NoResult == [kind |-> "none", returncode |-> 0]

\* no conversion is under way: the generator scripts do not import the
\* converter
ConvertIdle ==
    /\ ipc = "none"
    /\ selections = << >>
    /\ at = 1
    /\ success_count = 0
    /\ cpc = "idle"
    /\ args = [fbx_path |-> 0, glb_path |-> 0]
    /\ temp_script = NoScript
    /\ result = NoResult
    /\ returned = "none"
    /\ stdout = "utf-8"
    /\ locale = "utf-8"
    /\ pending = "none"

(***************************************************************************)
(* create_box_glb and create_cylinder_glb, statement group by statement    *)
(* group                                                                   *)
(***************************************************************************)
\* generate-all-doodads.py, create_box_glb: sx, sy, sz, vertices, indices, normals
DoodadsBoxGeometry ==
    /\ pc = "geometry" /\ script = "doodads" /\ call.fn = "create_box_glb"
    /\ frame' = [frame EXCEPT
                   !.half = doodads_box_half(call.size),
                   !.vertices = doodads_box_vertices(doodads_box_half(call.size)[1],
                                                     doodads_box_half(call.size)[2],
                                                     doodads_box_half(call.size)[3]),
                   !.indices = doodads_box_indices,
                   !.normals = doodads_box_normals]
    /\ pc' = "pack"
    /\ UNCHANGED << script, call, driverVars, convertVars >>

\* generate-placeholder-glb.py, create_box_glb: s, vertices, indices, normals;
\* size / 2 of a tuple raises TypeError
PlaceholderBoxGeometry ==
    /\ pc = "geometry" /\ script = "placeholder" /\ call.fn = "create_box_glb"
    /\ IF call.size.kind = "scalar"
       THEN /\ frame' = [frame EXCEPT
                           !.half = << call.size.v[1] \div 2 >>,
                           !.vertices = placeholder_box_vertices(call.size.v[1] \div 2),
                           !.indices = placeholder_box_indices,
                           !.normals = placeholder_box_normals]
            /\ pc' = "pack"
       ELSE /\ frame' = Raised("TypeError")
            /\ pc' = "raised"
    /\ UNCHANGED << script, call, driverVars, convertVars >>

\* generate-all-doodads.py, create_cylinder_glb: the extend calls that fill
\* vertices, normals and indices, the lists the call started with
DoodadsCylinderGeometry ==
    /\ pc = "geometry" /\ script = "doodads" /\ call.fn = "create_cylinder_glb"
    /\ frame' = [frame EXCEPT
                   !.vertices = @ \o doodads_cylinder_vertices(call.height, call.radius,
                                                              call.segments),
                   !.normals = @ \o doodads_cylinder_normals(call.segments),
                   !.indices = @ \o doodads_cylinder_indices(call.segments)]
    /\ pc' = "pack"
    /\ UNCHANGED << script, call, driverVars, convertVars >>

\* generate-placeholder-glb.py, create_cylinder_glb: the extend calls that
\* fill vertices, normals and indices, the lists the call started with
PlaceholderCylinderGeometry ==
    /\ pc = "geometry" /\ script = "placeholder" /\ call.fn = "create_cylinder_glb"
    /\ frame' = [frame EXCEPT
                   !.vertices = @ \o placeholder_cylinder_vertices(call.height, call.radius,
                                                                  call.segments),
                   !.normals = @ \o placeholder_cylinder_normals(call.segments),
                   !.indices = @ \o placeholder_cylinder_indices(call.segments)]
    /\ pc' = "pack"
    /\ UNCHANGED << script, call, driverVars, convertVars >>

\* a struct.pack that wraps an out-of-range index instead of raising
PackWraps(indices) == FALSE

\* whether struct.pack(f'{len(indices)}H', *indices) raises struct.error
PackRaises(indices) ==
    \E j \in 1..Len(indices) : indices[j] < 0 \/ indices[j] > USHRT_MAX

\* vertex_data, indices_data, normals_data: the three struct.pack calls
Pack ==
    /\ pc = "pack"
    /\ IF PackRaises(frame.indices)
       THEN /\ frame' = Raised("struct.error")
            /\ pc' = "raised"
       ELSE /\ frame' = [frame EXCEPT
                           !.vertex_data = PackFloats(frame.vertices),
                           !.indices_data = PackShorts(frame.indices),
                           !.normals_data = PackFloats(frame.normals)]
            /\ pc' = "concat"
    /\ UNCHANGED << script, call, driverVars, convertVars >>

\* binary_data = vertex_data + normals_data + indices_data
Concat3(vertex_data, normals_data, indices_data) ==
    vertex_data \o normals_data \o indices_data

\* binary_data, padding_length, binary_data += b'\x00' * padding_length
Concat ==
    /\ pc = "concat"
    /\ frame' = [frame EXCEPT
                   !.padding_length =
                       PadLen(Len(frame.vertex_data) + Len(frame.normals_data)
                              + Len(frame.indices_data)),
                   !.binary_data =
                       Concat3(frame.vertex_data, frame.normals_data, frame.indices_data)
                       \o Bytes(0, PadLen(Len(frame.vertex_data)
                                          + Len(frame.normals_data)
                                          + Len(frame.indices_data)))]
    /\ pc' = "document"
    /\ UNCHANGED << script, call, driverVars, convertVars >>

\* the strings of the running script
Style(sc) == IF sc = "doodads" THEN doodads_style ELSE placeholder_style

\* "max" and "min" as the running function writes them
Bounds(sc, c, half) ==
    CASE sc = "doodads" /\ c.fn = "create_box_glb" ->
            doodads_box_bounds(half[1], half[2], half[3])
      [] sc = "placeholder" /\ c.fn = "create_box_glb" ->
            placeholder_box_bounds(half[1])
      [] sc = "doodads" /\ c.fn = "create_cylinder_glb" ->
            doodads_cylinder_bounds(c.height, c.radius)
      [] sc = "placeholder" /\ c.fn = "create_cylinder_glb" ->
            placeholder_cylinder_bounds(c.height, c.radius)

\* gltf_json = {...}
Document ==
    /\ pc = "document"
    /\ frame' = [frame EXCEPT
                   !.gltf_json =
                       GltfJson(Style(script), call.name, call.color,
                                frame.vertices, frame.normals, frame.indices,
                                Bounds(script, call, frame.half).max,
                                Bounds(script, call, frame.half).min,
                                frame.vertex_data, frame.normals_data,
                                frame.indices_data, frame.binary_data)]
    /\ pc' = "dumps"
    /\ UNCHANGED << script, call, driverVars, convertVars >>

\* json_data += b' ' * json_padding
PadJson(json_data) == json_data \o Bytes(32, PadLen(Len(json_data)))

\* json_data, json_padding
Dumps ==
    /\ pc = "dumps"
    /\ frame' = [frame EXCEPT
                   !.json_padding = PadLen(Len(JsonDumps(frame.gltf_json))),
                   !.json_data = PadJson(JsonDumps(frame.gltf_json))]
    /\ pc' = "assemble"
    /\ UNCHANGED << script, call, driverVars, convertVars >>

\* total_length, glb, return glb
Assemble ==
    /\ pc = "assemble"
    /\ frame' = [frame EXCEPT
                   !.total_length = TotalLength(frame.json_data, frame.binary_data),
                   !.glb = PackGlb(TotalLength(frame.json_data, frame.binary_data),
                                   frame.json_data, frame.binary_data)]
    /\ pc' = "returned"
    /\ UNCHANGED << script, call, driverVars, convertVars >>

CreateStep ==
    \/ DoodadsBoxGeometry
    \/ PlaceholderBoxGeometry
    \/ DoodadsCylinderGeometry
    \/ PlaceholderCylinderGeometry
    \/ Pack
    \/ Concat
    \/ Document
    \/ Dumps
    \/ Assemble

(***************************************************************************)
(* Function-level runs: one call of one create_*_glb                       *)
(***************************************************************************)
Init ==
    /\ script \in {"doodads", "placeholder"}
    /\ call \in Calls
    /\ pc = "geometry"
    /\ frame = Raised("none")
    /\ dpc = "none"
    /\ models = <<>>
    /\ k = 1
    /\ files = InitialFiles
    /\ handle = 0
    /\ ConvertIdle

Next == CreateStep

Spec == Init /\ [][Next]_vars

(***************************************************************************)
(* The __main__ blocks.  generate-all-doodads.py builds the whole models   *)
(* list, one create_*_glb call per entry, and only then writes the files   *)
(* in a loop; generate-placeholder-glb.py generates and writes one model   *)
(* after the other.  Neither catches an exception: a call or a write that  *)
(* raises ends the script.  The table of a run has MaxBatch entries, drawn *)
(* one by one from DriverCalls; entry n is written to the n-th output path. *)
(***************************************************************************)
DriverInit ==
    /\ script \in {"doodads", "placeholder"}
    /\ files = InitialFiles
    /\ dpc = "generate"
    /\ pc = "idle"
    /\ call = NoCall
    /\ frame = Raised("none")
    /\ models = <<>>
    /\ k = 1
    /\ handle = 0
    /\ ConvertIdle

\* the next entry of the table: its create_*_glb call starts
Generate ==
    /\ dpc = "generate"
    /\ \E c \in DriverCalls : call' = c
    /\ frame' = NewFrame(frame)
    /\ pc' = "geometry"
    /\ dpc' = "calling"
    /\ UNCHANGED << script, models, k, files, handle, convertVars >>

\* where __main__ goes on once `generated` byte strings are at hand
AfterGenerate(sc, generated, n) ==
    IF sc = "doodads" /\ generated < n THEN "generate" ELSE "open"

\* the call returned glb
Generated ==
    /\ dpc = "calling" /\ pc = "returned"
    /\ models' = Append(models, [request |-> call, glb_data |-> frame.glb])
    /\ pc' = "idle"
    /\ dpc' = AfterGenerate(script, Len(models) + 1, MaxBatch)
    /\ UNCHANGED << script, call, frame, k, files, handle, convertVars >>

\* the call raised: the exception is not caught, the script ends
Uncaught ==
    /\ dpc = "calling" /\ pc = "raised"
    /\ pc' = "idle"
    /\ dpc' = "crashed"
    /\ UNCHANGED << script, call, frame, models, k, files, handle, convertVars >>

\* with open(filepath, "wb") as f: the file is created or truncated
OpenFile ==
    /\ dpc = "open"
    /\ files' = [files EXCEPT ![k] = [exists |-> TRUE, data |-> <<>>]]
    /\ handle' = k
    /\ dpc' = "write"
    /\ UNCHANGED << script, pc, call, frame, models, k, convertVars >>

\* open raises OSError: the script ends
OpenFails ==
    /\ dpc = "open"
    /\ dpc' = "crashed"
    /\ UNCHANGED << script, pc, call, frame, models, k, files, handle, convertVars >>

\* where __main__ goes on once entry `written` is on disk
AfterWrite(sc, written, n) ==
    IF written = n THEN "done"
    ELSE IF sc = "doodads" THEN "open" ELSE "generate"

\* f.write(glb_data), and the with block closes f
WriteFile ==
    /\ dpc = "write"
    /\ files' = [files EXCEPT ![k] = [exists |-> TRUE, data |-> models[k].glb_data]]
    /\ handle' = 0
    /\ k' = k + 1
    /\ dpc' = AfterWrite(script, k, MaxBatch)
    /\ UNCHANGED << script, pc, call, frame, models, convertVars >>

\* f.write raises OSError after part of the bytes (none, or the first half):
\* the with block closes f, the script ends
WriteFails ==
    /\ dpc = "write"
    /\ \E n \in {0, Len(models[k].glb_data) \div 2} :
          files' = [files EXCEPT ![k] = [exists |-> TRUE,
                                         data |-> SubSeq(models[k].glb_data, 1, n)]]
    /\ handle' = 0
    /\ dpc' = "crashed"
    /\ UNCHANGED << script, pc, call, frame, models, k, convertVars >>

DriverNext ==
    \/ Generate
    \/ CreateStep
    \/ Generated
    \/ Uncaught
    \/ OpenFile
    \/ OpenFails
    \/ WriteFile
    \/ WriteFails

DriverSpec == DriverInit /\ [][DriverNext]_vars

(***************************************************************************)
(* One interpreter calling create_box_glb and create_cylinder_glb several  *)
(* times, as the models list of generate-all-doodads.py does: each call    *)
(* runs to its return before the next starts, and the bytes returned are   *)
(* kept with the arguments that gave them.                                 *)
(***************************************************************************)
\* the largest number of calls of a session
MaxCalls == 3

\* the calls of a session: two boxes and two cylinders, all of which return
SessionCalls ==
    { BoxCall(<< <<116>>, <<400, 300, 200>> >>, Scalar(1000)),
      BoxCall(<< <<97, 98>>, <<Scale, 0, Scale>> >>, Scalar(1500)),
      CylinderCall(<< <<116>>, <<400, 300, 200>> >>, 4000, 500, 3),
      CylinderCall(<< <<97, 98>>, <<Scale, 0, Scale>> >>, 1500, 300, 4) }

SessionInit ==
    /\ script \in {"doodads", "placeholder"}
    /\ files = InitialFiles
    /\ dpc = "session"
    /\ pc = "idle"
    /\ call = NoCall
    /\ frame = Raised("none")
    /\ models = <<>>
    /\ k = 1
    /\ handle = 0
    /\ ConvertIdle

\* the next call starts
SessionCall ==
    /\ dpc = "session" /\ pc = "idle" /\ Len(models) < MaxCalls
    /\ \E c \in SessionCalls : call' = c
    /\ frame' = NewFrame(frame)
    /\ pc' = "geometry"
    /\ UNCHANGED << script, dpc, models, k, files, handle, convertVars >>

\* the call returned glb
SessionReturn ==
    /\ dpc = "session" /\ pc = "returned"
    /\ models' = Append(models, [request |-> call, glb_data |-> frame.glb])
    /\ pc' = "idle"
    /\ UNCHANGED << script, dpc, call, frame, k, files, handle, convertVars >>

SessionNext ==
    \/ SessionCall
    \/ CreateStep
    \/ SessionReturn

SessionSpec == SessionInit /\ [][SessionNext]_vars

(***************************************************************************)
(* scripts/convert-fbx-to-glb.py: convert_fbx_to_glb, called on its own or *)
(* from the conversion loop of interactive_mode.  The user's selections    *)
(* are taken as made: one FBX file, or None, for each of the three         *)
(* outputs.  Blender is the environment: subprocess.run ends with an exit  *)
(* code, with TimeoutExpired after 60 s, with another Exception (the       *)
(* executable is missing or may not be run), or is interrupted from the    *)
(* keyboard, which except Exception does not catch.  The two print calls   *)
(* between write_text and try stand outside the try statement: an          *)
(* exception there, a KeyboardInterrupt or the UnicodeEncodeError of a     *)
(* standard output that cannot write the arrow, leaves the function        *)
(* without passing finally.  The print calls inside the try statement      *)
(* write a check mark or a cross, and raise on a standard output that      *)
(* cannot write them.  write_text encodes the script, which holds a check  *)
(* mark, with the locale encoding: where that cannot write the mark the    *)
(* file is created or truncated and the call raises, before try.  The      *)
(* file system itself does not fail: mkdir, open and unlink succeed.       *)
(***************************************************************************)
\* the largest number of FBX files found under public/assets/.downloads
MaxFbx == 2

\* the number of entries of the selections dict
SelectionCount == 3

\* exit codes of Blender: success, an error, killed by signal 11
ReturnCodes == { 0, 1, -11 }

\* exceptions of subprocess.run that except Exception catches
RunExceptions == { "FileNotFoundError", "PermissionError" }

\* encodings of sys.stdout and of the locale: one that writes every
\* character, one that writes the arrow but neither mark, one that writes
\* none of them
Encodings == { "utf-8", "cp932", "ascii" }

\* the encoding can write U+2192, the arrow of "Converting: a -> b"
EncodesArrow(encoding) == encoding \in { "utf-8", "cp932" }

\* the encoding can write U+2705 and U+274C, the marks of the messages
\* printed inside the try statement; U+2705 is in blender_script as well
EncodesMarks(encoding) == encoding = "utf-8"

\* blender_script: the template with fbx_path and glb_path filled in
BlenderScript(fbx_path, glb_path) == << fbx_path, glb_path >>

\* result.returncode == 0
Succeeded(returncode) == returncode = 0

\* if temp_script.exists(): temp_script.unlink()
Cleanup(file) == IF file.exists THEN NoScript ELSE file

\* the temporary script after open(mode="w") and no write
EmptyScript == [exists |-> TRUE, text |-> << >>]

\* temp_script.write_text(blender_script), no encoding given: the file is
\* opened for writing, which creates or truncates it, and the text encoded
\* with the locale encoding; a locale that cannot write the check mark of
\* the script raises UnicodeEncodeError with the file left empty
WriteTempScript ==
    /\ cpc = "write"
    /\ IF EncodesMarks(locale)
          THEN /\ temp_script' = [exists |-> TRUE,
                                  text |-> BlenderScript(args.fbx_path, args.glb_path)]
               /\ cpc' = "announce"
               /\ pending' = pending
          ELSE /\ temp_script' = EmptyScript
               /\ cpc' = "raised"
               /\ pending' = "UnicodeEncodeError"
    /\ UNCHANGED << script, dpc, pc, call, frame, models, k, files, handle,
                    ipc, selections, at, success_count, args, result, returned,
                    stdout, locale >>

\* print(f"Converting: ... -> ...") and print("(This may take ...)"), before
\* try: a standard output that cannot write the arrow raises
\* UnicodeEncodeError, and nothing removes the script
Announce ==
    /\ cpc = "announce"
    /\ IF EncodesArrow(stdout)
          THEN cpc' = "run" /\ pending' = pending
          ELSE cpc' = "raised" /\ pending' = "UnicodeEncodeError"
    /\ UNCHANGED << script, dpc, pc, call, frame, models, k, files, handle,
                    ipc, selections, at, success_count, args, temp_script,
                    result, returned, stdout, locale >>

\* KeyboardInterrupt at one of the two print calls before try: nothing
\* removes the script
AnnounceInterrupted ==
    /\ cpc = "announce"
    /\ pending' = "KeyboardInterrupt"
    /\ cpc' = "raised"
    /\ UNCHANGED << script, dpc, pc, call, frame, models, k, files, handle,
                    ipc, selections, at, success_count, args, temp_script,
                    result, returned, stdout, locale >>

\* subprocess.run returns a CompletedProcess
RunCompletes ==
    /\ cpc = "run"
    /\ \E rc \in ReturnCodes : result' = [kind |-> "completed", returncode |-> rc]
    /\ cpc' = "check"
    /\ UNCHANGED << script, dpc, pc, call, frame, models, k, files, handle,
                    ipc, selections, at, success_count, args, temp_script,
                    returned, stdout, locale, pending >>

\* subprocess.run raises TimeoutExpired after timeout=60
RunTimesOut ==
    /\ cpc = "run"
    /\ result' = [kind |-> "TimeoutExpired", returncode |-> 0]
    /\ pending' = "TimeoutExpired"
    /\ cpc' = "except TimeoutExpired"
    /\ UNCHANGED << script, dpc, pc, call, frame, models, k, files, handle,
                    ipc, selections, at, success_count, args, temp_script,
                    returned, stdout, locale >>

\* subprocess.run raises another Exception
RunRaises ==
    /\ cpc = "run"
    /\ \E e \in RunExceptions :
          /\ result' = [kind |-> e, returncode |-> 0]
          /\ pending' = e
    /\ cpc' = "except Exception"
    /\ UNCHANGED << script, dpc, pc, call, frame, models, k, files, handle,
                    ipc, selections, at, success_count, args, temp_script,
                    returned, stdout, locale >>

\* KeyboardInterrupt during subprocess.run: no except clause matches, the
\* finally block runs with the exception pending
RunInterrupted ==
    /\ cpc = "run"
    /\ result' = [kind |-> "KeyboardInterrupt", returncode |-> 0]
    /\ pending' = "KeyboardInterrupt"
    /\ cpc' = "finally"
    /\ UNCHANGED << script, dpc, pc, call, frame, models, k, files, handle,
                    ipc, selections, at, success_count, args, temp_script,
                    returned, stdout, locale >>

\* if result.returncode == 0: print, return True, else: print, return
\* False; a print that raises is caught by except Exception
CheckReturncode ==
    /\ cpc = "check"
    /\ IF EncodesMarks(stdout)
          THEN /\ returned' = IF Succeeded(result.returncode) THEN "True" ELSE "False"
               /\ pending' = pending
               /\ cpc' = "finally"
          ELSE /\ returned' = returned
               /\ pending' = "UnicodeEncodeError"
               /\ cpc' = "except Exception"
    /\ UNCHANGED << script, dpc, pc, call, frame, models, k, files, handle,
                    ipc, selections, at, success_count, args, temp_script,
                    result, stdout, locale >>

\* except subprocess.TimeoutExpired: print, return False; a print that
\* raises inside the handler is caught by no other clause
ExceptTimeoutExpired ==
    /\ cpc = "except TimeoutExpired"
    /\ IF EncodesMarks(stdout)
          THEN returned' = "False" /\ pending' = "none"
          ELSE returned' = returned /\ pending' = "UnicodeEncodeError"
    /\ cpc' = "finally"
    /\ UNCHANGED << script, dpc, pc, call, frame, models, k, files, handle,
                    ipc, selections, at, success_count, args, temp_script,
                    result, stdout, locale >>

\* except Exception as e: print, return False; a print that raises inside
\* the handler is caught by no other clause
ExceptException ==
    /\ cpc = "except Exception"
    /\ IF EncodesMarks(stdout)
          THEN returned' = "False" /\ pending' = "none"
          ELSE returned' = returned /\ pending' = "UnicodeEncodeError"
    /\ cpc' = "finally"
    /\ UNCHANGED << script, dpc, pc, call, frame, models, k, files, handle,
                    ipc, selections, at, success_count, args, temp_script,
                    result, stdout, locale >>

\* finally: clean up, then the pending return or exception takes effect
Finally ==
    /\ cpc = "finally"
    /\ temp_script' = Cleanup(temp_script)
    /\ cpc' = IF pending = "none" THEN "returned" ELSE "raised"
    /\ UNCHANGED << script, dpc, pc, call, frame, models, k, files, handle,
                    ipc, selections, at, success_count, args, result, returned,
                    stdout, locale, pending >>

ConvertStep ==
    \/ WriteTempScript
    \/ Announce
    \/ AnnounceInterrupted
    \/ RunCompletes
    \/ RunTimesOut
    \/ RunRaises
    \/ RunInterrupted
    \/ CheckReturncode
    \/ ExceptTimeoutExpired
    \/ ExceptException
    \/ Finally

\* for output_name, fbx_path in selections.items(): if fbx_path is None:
\* continue
SkipSelection ==
    /\ ipc = "loop" /\ at <= SelectionCount /\ selections[at] = 0
    /\ at' = at + 1
    /\ UNCHANGED << script, dpc, pc, call, frame, models, k, files, handle,
                    ipc, selections, success_count, cpc, args, temp_script,
                    result, returned, stdout, locale, pending >>

\* convert_fbx_to_glb(str(fbx_path), str(output_path), blender_exe) is called
CallConvert ==
    /\ ipc = "loop" /\ at <= SelectionCount /\ selections[at] # 0
    /\ args' = [fbx_path |-> selections[at], glb_path |-> at]
    /\ result' = NoResult
    /\ returned' = "none"
    /\ pending' = "none"
    /\ cpc' = "write"
    /\ ipc' = "converting"
    /\ UNCHANGED << script, dpc, pc, call, frame, models, k, files, handle,
                    selections, at, success_count, temp_script, stdout, locale >>

\* if convert_fbx_to_glb(...): success_count += 1
ConvertReturns ==
    /\ ipc = "converting" /\ cpc = "returned"
    /\ success_count' = IF returned = "True" THEN success_count + 1 ELSE success_count
    /\ at' = at + 1
    /\ cpc' = "idle"
    /\ ipc' = "loop"
    /\ UNCHANGED << script, dpc, pc, call, frame, models, k, files, handle,
                    selections, args, temp_script, result, returned, stdout, locale,
                    pending >>

\* the exception that left convert_fbx_to_glb leaves interactive_mode as well
ConvertInterrupted ==
    /\ ipc = "converting" /\ cpc = "raised"
    /\ cpc' = "idle"
    /\ ipc' = "interrupted"
    /\ UNCHANGED << script, dpc, pc, call, frame, models, k, files, handle,
                    selections, at, success_count, args, temp_script, result,
                    returned, stdout, locale, pending >>

\* the summary: return True if success_count == 3, else False
Summary ==
    /\ ipc = "loop" /\ at > SelectionCount
    /\ ipc' = IF success_count = SelectionCount THEN "returned True" ELSE "returned False"
    /\ UNCHANGED << script, dpc, pc, call, frame, models, k, files, handle,
                    selections, at, success_count, cpc, args, temp_script, result,
                    returned, stdout, locale, pending >>

\* interactive_mode at the start of its conversion loop: it has printed the
\* arrow in its banner and a check mark for every selection made, so its
\* standard output writes them all
InteractiveInit ==
    /\ ipc = "loop"
    /\ selections \in [1..SelectionCount -> 0..MaxFbx]
    /\ cpc = "idle"
    /\ args = [fbx_path |-> 0, glb_path |-> 0]
    /\ stdout = "utf-8"
    /\ locale \in Encodings

\* convert_fbx_to_glb called on its own, on any standard output and locale
DirectInit ==
    /\ ipc = "direct"
    /\ selections = [n \in 1..SelectionCount |-> 0]
    /\ cpc = "write"
    /\ args \in [fbx_path : 1..MaxFbx, glb_path : 1..SelectionCount]
    /\ stdout \in Encodings
    /\ locale \in Encodings

\* the temporary script may be there from a run that was killed
ConvertInit ==
    /\ script = "convert"
    /\ dpc = "none" /\ pc = "idle" /\ call = NoCall /\ frame = Raised("none")
    /\ models = << >> /\ k = 1 /\ files = InitialFiles /\ handle = 0
    /\ InteractiveInit \/ DirectInit
    /\ at = 1
    /\ success_count = 0
    /\ temp_script \in { NoScript, [exists |-> TRUE, text |-> BlenderScript(1, 1)] }
    /\ result = NoResult
    /\ returned = "none"
    /\ pending = "none"

ConvertNext ==
    \/ ConvertStep
    \/ SkipSelection
    \/ CallConvert
    \/ ConvertReturns
    \/ ConvertInterrupted
    \/ Summary

ConvertSpec == ConvertInit /\ [][ConvertNext]_vars

(***************************************************************************)
(* Properties                                                              *)
(***************************************************************************)
\* a create_*_glb call that got past its geometry statements
HasGeometry == pc \in {"pack", "concat", "document", "dumps", "assemble", "returned"}

IsBox == call.fn = "create_box_glb"
IsCylinder == call.fn = "create_cylinder_glb"

\* V, the number of generated vertices, and I, the number of indices
VertexCount == Len(frame.vertices) \div 3
IndexCount == Len(frame.indices)

\* accessor n and buffer view n of the document (numbered from 0 as in glTF)
Accessor(n) == JGet(frame.gltf_json, "accessors").v[n + 1]
BufferView(n) == JGet(frame.gltf_json, "bufferViews").v[n + 1]
ViewOffset(n) == JGet(BufferView(n), "byteOffset").v
ViewLength(n) == JGet(BufferView(n), "byteLength").v
BufferByteLength == JGet(JGet(frame.gltf_json, "buffers").v[1], "byteLength").v

\* C1: for every box and every cylinder with segments >= 3 the index list
\* has a length divisible by 3 and every index is strictly less than the
\* number of generated vertices, len(vertices) / 3
C1_IndicesInRange ==
    (HasGeometry /\ (IsBox \/ (IsCylinder /\ call.segments >= 3))) =>
        /\ IndexCount % 3 = 0
        /\ \A j \in 1..IndexCount :
              frame.indices[j] >= 0 /\ frame.indices[j] < VertexCount

\* a cylinder of at least 3 segments was returned whose triangles reach the
\* last vertex
C1_Witness ==
    /\ pc = "returned" /\ IsCylinder /\ call.segments >= 3
    /\ IndexCount > 0
    /\ \E j \in 1..IndexCount : frame.indices[j] = VertexCount - 1

\* the largest and the smallest coordinate of the generated positions on
\* axis a (1 = x, 2 = y, 3 = z)
AxisValues(a) == { frame.vertices[3 * (v - 1) + a] : v \in 1..VertexCount }
TrueMax(a) == CHOOSE m \in AxisValues(a) : \A x \in AxisValues(a) : x <= m
TrueMin(a) == CHOOSE m \in AxisValues(a) : \A x \in AxisValues(a) : m <= x

\* C2: for every box and every cylinder with segments >= 3 and positive
\* height and radius, "max" and "min" of accessor 0 equal the true per-axis
\* maximum and minimum over all generated vertex positions
C2_BoundsAreTrueExtremes ==
    (/\ pc = "returned"
     /\ IsBox \/ (IsCylinder /\ call.segments >= 3 /\ call.height > 0 /\ call.radius > 0)) =>
        \A a \in 1..3 :
            /\ JGet(Accessor(0), "max").v[a].v = TrueMax(a)
            /\ JGet(Accessor(0), "min").v[a].v = TrueMin(a)

\* C3: a request whose vertex count exceeds 65535 fails in struct.pack with
\* struct.error (the IndexOverflow of the call) instead of wrapping its
\* indices: it returns no bytes, and when the script has ended on it the
\* output file of its table entry is as it was before the run
C3_IndexOverflowFails ==
    /\ [][ (pc = "pack" /\ VertexCount > USHRT_MAX) =>
              (/\ pc' = "raised"
               /\ frame'.exc = "struct.error"
               /\ frame'.glb = <<>>
               /\ files' = files /\ models' = models) ]_vars
    /\ [] ( (dpc = "crashed" /\ frame.exc = "struct.error") =>
              (/\ Len(models) < MaxBatch
               /\ files[Len(models) + 1] = InitialFiles[Len(models) + 1]
               /\ handle = 0) )

\* the script ended on the struct.error of a cylinder of more than 65535
\* vertices
C3_Witness ==
    /\ dpc = "crashed" /\ frame.exc = "struct.error"
    /\ IsCylinder /\ 2 + 4 * call.segments > USHRT_MAX

\* C4: create_cylinder_glb called with segments < 3, or with a non-positive
\* radius or height, fails and returns no GLB bytes
C4_InvalidShapeParamsRejected ==
    (IsCylinder /\ (call.segments < 3 \/ call.radius <= 0 \/ call.height <= 0)) =>
        (pc # "returned" /\ frame.glb = <<>>)

\* C5: a mesh with zero vertices or zero indices is rejected: no GLB is
\* returned whose position accessor count or index accessor count is 0
C5_EmptyMeshRejected ==
    pc = "returned" =>
        /\ VertexCount > 0 /\ IndexCount > 0
        /\ JGet(Accessor(0), "count").v > 0
        /\ JGet(Accessor(2), "count").v > 0

\* C6: in every GLB produced the three buffer views tile the binary payload
\* in the order positions, normals, indices: view 0 is (0, 12 V), view 1
\* starts where view 0 ends and has length 12 V, view 2 starts where view 1
\* ends and has length 2 I, and the end of view 2 does not exceed the
\* byteLength of the buffer
C6_BufferViewsTile ==
    pc = "returned" =>
        /\ ViewOffset(0) = 0
        /\ ViewLength(0) = 12 * VertexCount
        /\ ViewOffset(1) = ViewOffset(0) + ViewLength(0)
        /\ ViewLength(1) = 12 * VertexCount
        /\ ViewOffset(2) = ViewOffset(1) + ViewLength(1)
        /\ ViewLength(2) = 2 * IndexCount
        /\ ViewOffset(2) + ViewLength(2) <= BufferByteLength
        /\ BufferByteLength = Len(frame.binary_data)

\* a cylinder was returned with three non-empty views, the last ending at
\* the end of the buffer
C6_Witness ==
    /\ pc = "returned" /\ IsCylinder /\ call.segments >= 3
    /\ ViewLength(0) > 0 /\ ViewLength(2) > 0
    /\ ViewOffset(2) + ViewLength(2) = BufferByteLength

\* the total_length field of the 12-byte file header of glb
HeaderTotalLength == UnpackI(SubSeq(frame.glb, 9, 12))

\* C7: for every byte stream returned, the total_length field written in
\* the file header equals 12 + 8 + len(padded JSON) + 8 + len(padded
\* binary), which is the actual length of the stream
C7_TotalLengthIsStreamLength ==
    pc = "returned" =>
        /\ HeaderTotalLength = 12 + 8 + Len(frame.json_data) + 8 + Len(frame.binary_data)
        /\ HeaderTotalLength = Len(frame.glb)

\* a stream was returned whose JSON chunk carries padding
C7_Witness ==
    /\ pc = "returned"
    /\ frame.json_padding > 0
    /\ Len(frame.glb) > 28 + Len(frame.binary_data)

\* the last n bytes of data are all b
EndsWith(data, n, b) ==
    \A j \in (Len(data) - n + 1)..Len(data) : data[j] = b

\* C8: for every mesh and every name and colour, the padded JSON chunk
\* length and the padded binary chunk length are multiples of 4, and the
\* padding added to each is between 0 and 3 bytes, spaces for JSON and zero
\* bytes for binary
C8_ChunksAligned ==
    pc = "returned" =>
        /\ Len(frame.json_data) % 4 = 0
        /\ Len(frame.binary_data) % 4 = 0
        /\ frame.json_padding \in 0..3
        /\ frame.padding_length \in 0..3
        /\ Len(frame.json_data) = Len(JsonDumps(frame.gltf_json)) + frame.json_padding
        /\ Len(frame.binary_data) =
              Len(frame.vertex_data) + Len(frame.normals_data)
              + Len(frame.indices_data) + frame.padding_length
        /\ EndsWith(frame.json_data, frame.json_padding, 32)
        /\ EndsWith(frame.binary_data, frame.padding_length, 0)

\* a stream was returned whose JSON text took three spaces of padding
C8_Witness ==
    /\ pc = "returned"
    /\ frame.json_padding = 3
    /\ EndsWith(frame.json_data, 3, 32)
    /\ frame.json_data[Len(frame.json_data) - 3] = 125

\* reading glb back: the header, then each chunk by its declared length
ReadMagic == UnpackI(SubSeq(frame.glb, 1, 4))
ReadVersion == UnpackI(SubSeq(frame.glb, 5, 8))
ReadJsonLength == UnpackI(SubSeq(frame.glb, 13, 16))
ReadJsonType == UnpackI(SubSeq(frame.glb, 17, 20))
ReadJson == SubSeq(frame.glb, 21, 20 + ReadJsonLength)
ReadBinLength == UnpackI(SubSeq(frame.glb, 21 + ReadJsonLength, 24 + ReadJsonLength))
ReadBinType == UnpackI(SubSeq(frame.glb, 25 + ReadJsonLength, 28 + ReadJsonLength))
ReadBin == SubSeq(frame.glb, 29 + ReadJsonLength, 28 + ReadJsonLength + ReadBinLength)
ReadConsumed == 28 + ReadJsonLength + ReadBinLength

\* C9: reading the returned stream back as header, JSON chunk header, JSON
\* chunk of the declared length, BIN chunk header, BIN chunk of the declared
\* length consumes the stream exactly, yields the JSON chunk first and the
\* binary chunk second, and reproduces the padded JSON and the padded binary
\* byte for byte
C9_RoundTrip ==
    pc = "returned" =>
        /\ Len(frame.glb) >= 28
        /\ ReadMagic = 1179937895 /\ ReadVersion = 2
        /\ ReadJsonType = 1313821514
        /\ 20 + ReadJsonLength + 8 <= Len(frame.glb)
        /\ ReadBinType = 5130562
        /\ ReadConsumed = Len(frame.glb)
        /\ ReadJson = frame.json_data
        /\ ReadBin = frame.binary_data

\* a cylinder was returned and read back into a padded JSON chunk and a
\* non-empty binary chunk
C9_Witness ==
    /\ pc = "returned" /\ IsCylinder /\ call.segments >= 3
    /\ frame.json_padding > 0
    /\ ReadJsonLength = Len(frame.json_data)
    /\ ReadBinLength = Len(frame.binary_data) /\ ReadBinLength > 0

AccessorCount(n) == JGet(Accessor(n), "count").v

\* C11: every box yields exactly 8 vertices and 36 indices; every cylinder
\* with segments = s >= 3 yields exactly 2 + 4 s vertices and 12 s indices;
\* the accessor counts recorded in the JSON equal these numbers
C11_MeshSize ==
    /\ (HasGeometry /\ IsBox) => (VertexCount = 8 /\ IndexCount = 36)
    /\ (HasGeometry /\ IsCylinder /\ call.segments >= 3) =>
          (/\ VertexCount = 2 + 4 * call.segments
           /\ IndexCount = 12 * call.segments)
    /\ (pc = "returned" /\ (IsBox \/ call.segments >= 3)) =>
          (/\ AccessorCount(0) = VertexCount
           /\ AccessorCount(2) = IndexCount
           /\ Len(frame.vertices) = 3 * VertexCount)

\* the cylinder of 8 segments was returned with 34 vertices and 96 indices
C11_Witness ==
    /\ pc = "returned" /\ IsCylinder /\ call.segments = 8
    /\ AccessorCount(0) = 34 /\ AccessorCount(2) = 96

\* C12: for every generated mesh, box or cylinder with any parameters, the
\* number of position vectors equals the number of normal vectors, and the
\* counts of the POSITION and NORMAL accessors in the JSON are equal
C12_PositionsMatchNormals ==
    /\ HasGeometry =>
          (/\ Len(frame.normals) = Len(frame.vertices)
           /\ Len(frame.vertices) % 3 = 0)
    /\ pc = "returned" =>
          (/\ AccessorCount(0) = AccessorCount(1)
           /\ AccessorCount(1) = Len(frame.normals) \div 3)

\* a box and nothing else: both lists hold 8 vectors in the returned stream
C12_Witness ==
    /\ pc = "returned" /\ IsBox
    /\ Len(frame.normals) = 24
    /\ AccessorCount(1) = 8

\* the t-th triangle of the index list, t counted from 0
TriangleAt(t) ==
    << frame.indices[3 * t + 1], frame.indices[3 * t + 2], frame.indices[3 * t + 3] >>

\* the cap triangles and the two triangles of the side quad of step i, as
\* the claim names them
BottomCap(i, s) == << 0, 2 + ((i + 1) % s), 2 + i >>
TopCap(i, s) == << 1, 2 + s + i, 2 + s + ((i + 1) % s) >>
SideLower(i, s) ==
    << 2 + 2 * s + 2 * i, 2 + 2 * s + 2 * ((i + 1) % s), 2 + 2 * s + 2 * i + 1 >>
SideUpper(i, s) ==
    << 2 + 2 * s + 2 * i + 1, 2 + 2 * s + 2 * ((i + 1) % s),
       2 + 2 * s + 2 * ((i + 1) % s) + 1 >>

\* the side quads follow the 2 s cap triangles, step by step
SidesFollowCaps(s) ==
    \A i \in 0..(s - 1) :
        /\ TriangleAt(2 * s + 2 * i) = SideLower(i, s)
        /\ TriangleAt(2 * s + 2 * i + 1) = SideUpper(i, s)

\* all bottom caps, then all top caps
CapsInBlocks(s) ==
    \A i \in 0..(s - 1) :
        /\ TriangleAt(i) = BottomCap(i, s)
        /\ TriangleAt(s + i) = TopCap(i, s)

\* the bottom cap and the top cap of step i next to each other
CapsInterleaved(s) ==
    \A i \in 0..(s - 1) :
        /\ TriangleAt(2 * i) = BottomCap(i, s)
        /\ TriangleAt(2 * i + 1) = TopCap(i, s)

\* C13 as stated: cylinder triangles are emitted in the order all bottom-cap
\* triangles, then all top-cap triangles, then all side-wall triangles, the
\* i-th of each being (0, 2 + next, 2 + i), (1, 2 + s + i, 2 + s + next) and
\* the quad (v0, v2, v1), (v1, v2, v3); stated for the cylinders of at least
\* 3 segments
C13_CapsThenSides ==
    (HasGeometry /\ IsCylinder /\ call.segments >= 3) =>
        /\ IndexCount = 12 * call.segments
        /\ CapsInBlocks(call.segments)
        /\ SidesFollowCaps(call.segments)

\* C13 amended: the triangles are those the claim names and the side quads
\* come last, step by step; generate-placeholder-glb.py emits all bottom
\* caps and then all top caps, generate-all-doodads.py emits the bottom cap
\* and the top cap of each step together
C13_TrianglesPerScript ==
    (HasGeometry /\ IsCylinder /\ call.segments >= 1) =>
        /\ IndexCount = 12 * call.segments
        /\ SidesFollowCaps(call.segments)
        /\ script = "placeholder" => CapsInBlocks(call.segments)
        /\ script = "doodads" => CapsInterleaved(call.segments)

\* generate-all-doodads.py returned a cylinder whose second triangle is the
\* first top cap
C13_Witness ==
    /\ pc = "returned" /\ script = "doodads" /\ IsCylinder /\ call.segments >= 3
    /\ TriangleAt(1) = TopCap(0, call.segments)
    /\ TriangleAt(1) # BottomCap(1, call.segments)

\* the position and the normal of vertex n, n counted from 0
Position(n) ==
    << frame.vertices[3 * n + 1], frame.vertices[3 * n + 2], frame.vertices[3 * n + 3] >>
Normal(n) ==
    << frame.normals[3 * n + 1], frame.normals[3 * n + 2], frame.normals[3 * n + 3] >>

\* the normals (0, -1, 0) and (0, 1, 0)
Down == << 0, -Scale, 0 >>
Up == << 0, Scale, 0 >>

\* C14: cylinder vertex layout: index 0 is the bottom centre (0, 0, 0) with
\* normal (0, -1, 0), index 1 the top centre (0, height, 0) with normal
\* (0, 1, 0); indices 2 .. 1 + segments are the bottom rim (y = 0, normal
\* down), indices 2 + segments .. 1 + 2 segments the top rim (y = height,
\* normal up); from 2 + 2 segments on come the (bottom, top) side pairs, the
\* pair of step i at 2 + 2 segments + 2 i and the next index, with the x, z
\* of rim vertex i and a normal whose y-component is 0
C14_CylinderVertexLayout ==
    (HasGeometry /\ IsCylinder) =>
        /\ Position(0) = << 0, 0, 0 >> /\ Normal(0) = Down
        /\ Position(1) = << 0, call.height, 0 >> /\ Normal(1) = Up
        /\ \A i \in 0..(call.segments - 1) :
              /\ Position(2 + i)[2] = 0
              /\ Normal(2 + i) = Down
              /\ Position(2 + call.segments + i)[2] = call.height
              /\ Normal(2 + call.segments + i) = Up
              /\ Position(2 + 2 * call.segments + 2 * i) =
                    << Position(2 + i)[1], 0, Position(2 + i)[3] >>
              /\ Position(2 + 2 * call.segments + 2 * i + 1) =
                    << Position(2 + i)[1], call.height, Position(2 + i)[3] >>
              /\ Normal(2 + 2 * call.segments + 2 * i)[2] = 0
              /\ Normal(2 + 2 * call.segments + 2 * i + 1)[2] = 0
        /\ call.segments >= 0 => VertexCount = 2 + 4 * call.segments

\* a cylinder of positive height and radius was returned whose first side
\* pair stands over rim vertex 0, at x = radius
C14_Witness ==
    /\ pc = "returned" /\ IsCylinder /\ call.segments >= 3
    /\ call.height > 0 /\ call.radius > 0
    /\ Position(2) = << call.radius, 0, 0 >>
    /\ Position(2 + 2 * call.segments) = Position(2)
    /\ Position(2 + 2 * call.segments + 1) = << call.radius, call.height, 0 >>
    /\ Normal(2 + 2 * call.segments) = << Scale, 0, 0 >>

\* the corners of triangle t and its face normal (p1 - p0) x (p2 - p0)
Corner(t, c) == Position(TriangleAt(t)[c])
Edge(t, c) == [a \in 1..3 |-> Corner(t, c)[a] - Corner(t, 1)[a]]
FaceNormal(t) ==
    << Edge(t, 2)[2] * Edge(t, 3)[3] - Edge(t, 2)[3] * Edge(t, 3)[2],
       Edge(t, 2)[3] * Edge(t, 3)[1] - Edge(t, 2)[1] * Edge(t, 3)[3],
       Edge(t, 2)[1] * Edge(t, 3)[2] - Edge(t, 2)[2] * Edge(t, 3)[1] >>

\* the half extent of the box along axis a, from the size argument
HalfExtent(a) ==
    IF call.size.kind = "scalar" THEN call.size.v[1] \div 2 ELSE call.size.v[a] \div 2

\* triangle t lies in the face of the box on side sg (-1 or 1) of axis a
InFace(t, a, sg) ==
    \A c \in 1..3 : Corner(t, c)[a] = sg * HalfExtent(a)

\* triangle t lies in that face and its face normal points away from the
\* centre of the box
Outward(t, a, sg) ==
    /\ InFace(t, a, sg)
    /\ FaceNormal(t)[a] * sg > 0
    /\ \A b \in (1..3) \ {a} : FaceNormal(t)[b] = 0

\* C15: with positive half extents and counter-clockwise triangles, each of
\* the 12 box triangles lies in one of the 6 faces, 2 per face, and its face
\* normal (p1 - p0) x (p2 - p0) points outward, away from the box centre
C15_BoxWindingOutward ==
    (HasGeometry /\ IsBox) =>
        /\ IndexCount = 36
        /\ \A t \in 0..11 : \E a \in 1..3 : \E sg \in {-1, 1} : Outward(t, a, sg)
        /\ \A a \in 1..3 : \A sg \in {-1, 1} :
              Cardinality({ t \in 0..11 : InFace(t, a, sg) }) = 2

\* the 8 sign combinations of the half extents
SignCombinations ==
    { << a * HalfExtent(1), b * HalfExtent(2), c * HalfExtent(3) >> :
        a \in {-1, 1}, b \in {-1, 1}, c \in {-1, 1} }

\* C16: the 8 box positions are exactly the 8 sign combinations of
\* (+-sx, +-sy, +-sz); vertices 0..3, those with z = -sz, carry normal
\* (0, 0, -1) and vertices 4..7, those with z = +sz, carry normal (0, 0, 1),
\* for scalar and for per-axis sizes
C16_BoxVerticesAndNormals ==
    (HasGeometry /\ IsBox) =>
        /\ VertexCount = 8
        /\ { Position(n) : n \in 0..7 } = SignCombinations
        /\ Cardinality(SignCombinations) = 8
        /\ \A n \in 0..3 :
              Position(n)[3] = -HalfExtent(3) /\ Normal(n) = << 0, 0, -Scale >>
        /\ \A n \in 4..7 :
              Position(n)[3] = HalfExtent(3) /\ Normal(n) = << 0, 0, Scale >>

\* a box of per-axis size (3.0, 1.5, 0.2) was returned, with a corner at
\* (1.5, 0.75, 0.1)
C16_Witness ==
    /\ pc = "returned" /\ IsBox /\ call.size.kind = "tuple"
    /\ Position(6) = << 1500, 750, 100 >>
    /\ Normal(6) = << 0, 0, Scale >>

\* the table entry the script ended on: the one being generated when a
\* create_*_glb call raised, else the one being opened or written
FailedEntry == IF frame.exc # "none" THEN Len(models) + 1 ELSE k

\* entry n is on disk, whole
Written(n) == files[n] = [exists |-> TRUE, data |-> models[n].glb_data]

\* C17: errors are request-scoped in the batch drivers: if generating or
\* writing one shape of the batch fails, every other shape of the batch
\* whose own generation and write would succeed still gets its file written,
\* wherever it stands in the batch; stated for the shapes that were
\* generated without error
C17_ErrorsRequestScoped ==
    dpc = "crashed" =>
        \A n \in 1..Len(models) : n # FailedEntry => Written(n)

\* C18: if writing a generated GLB to its destination fails part-way, no
\* partial or truncated file is left at the destination path: after the
\* failure the path either does not exist or holds a complete, previously
\* valid file; the file handle is closed on every exit path
C18_NoPartialFile ==
    (dpc = "crashed" /\ frame.exc = "none") =>
        /\ handle = 0
        /\ \/ ~files[k].exists
           \/ files[k] = InitialFiles[k]

\* an index list of s bottom caps, s top caps and the side quads, with the
\* caps reordered step by step: bottom 0, top 0, bottom 1, top 1, ...
CapsPerStep(ix, s) ==
    [j \in 1..Len(ix) |->
        IF j > 6 * s THEN ix[j]
        ELSE IF ((j - 1) \div 3) % 2 = 0
             THEN ix[3 * (((j - 1) \div 3) \div 2) + ((j - 1) % 3) + 1]
             ELSE ix[3 * (s + ((j - 1) \div 3) \div 2) + ((j - 1) % 3) + 1]]

\* the reverse reordering: a step-by-step list with its caps put in blocks
CapsPerBlock(ix, s) ==
    [j \in 1..Len(ix) |->
        IF j > 6 * s THEN ix[j]
        ELSE IF (j - 1) \div 3 < s
             THEN ix[3 * (2 * ((j - 1) \div 3)) + ((j - 1) % 3) + 1]
             ELSE ix[3 * (2 * (((j - 1) \div 3) - s) + 1) + ((j - 1) % 3) + 1]]

\* both copies produce the positions and the normals of this call's mesh
SamePositionsAndNormals ==
    IF IsBox
    THEN /\ frame.vertices = doodads_box_vertices(HalfExtent(1), HalfExtent(2), HalfExtent(3))
         /\ frame.vertices = placeholder_box_vertices(HalfExtent(1))
         /\ frame.normals = doodads_box_normals
         /\ frame.normals = placeholder_box_normals
    ELSE /\ frame.vertices =
               doodads_cylinder_vertices(call.height, call.radius, call.segments)
         /\ frame.vertices =
               placeholder_cylinder_vertices(call.height, call.radius, call.segments)
         /\ frame.normals = doodads_cylinder_normals(call.segments)
         /\ frame.normals = placeholder_cylinder_normals(call.segments)

\* the calls the claim is about: boxes of scalar size, cylinders of at least
\* 3 segments
Comparable ==
    \/ IsBox /\ call.size.kind = "scalar"
    \/ IsCylinder /\ call.segments >= 3

\* C19 as stated: for every scalar box size and every cylinder height,
\* radius and segments >= 3 the two scripts produce the same position
\* sequence, the same normal sequence and the same index sequence
C19_SameGeometry ==
    (HasGeometry /\ Comparable) =>
        /\ SamePositionsAndNormals
        /\ IF IsBox
           THEN frame.indices = doodads_box_indices
                /\ frame.indices = placeholder_box_indices
           ELSE frame.indices = doodads_cylinder_indices(call.segments)
                /\ frame.indices = placeholder_cylinder_indices(call.segments)

\* C19 amended: the two scripts produce the same position sequence and the
\* same normal sequence; for boxes also the same index sequence; for
\* cylinders index sequences of the same triangles, equal from the side
\* quads on and differing in the order of the caps only: the list of
\* generate-all-doodads.py is that of generate-placeholder-glb.py with
\* the caps taken step by step
C19_SameGeometryUpToCapOrder ==
    (HasGeometry /\ Comparable) =>
        /\ SamePositionsAndNormals
        /\ IsBox => (/\ frame.indices = doodads_box_indices
                     /\ frame.indices = placeholder_box_indices)
        /\ (IsCylinder /\ script = "placeholder") =>
              CapsPerStep(frame.indices, call.segments)
                 = doodads_cylinder_indices(call.segments)
        /\ (IsCylinder /\ script = "doodads") =>
              CapsPerBlock(frame.indices, call.segments)
                 = placeholder_cylinder_indices(call.segments)

\* generate-placeholder-glb.py returned a cylinder with the positions of
\* generate-all-doodads.py and an index list that is not the one of
\* generate-all-doodads.py
C19_Witness ==
    /\ pc = "returned" /\ script = "placeholder" /\ IsCylinder /\ call.segments >= 3
    /\ frame.vertices =
          doodads_cylinder_vertices(call.height, call.radius, call.segments)
    /\ frame.indices # doodads_cylinder_indices(call.segments)
    /\ CapsPerStep(frame.indices, call.segments) = doodads_cylinder_indices(call.segments)

\* the ways subprocess.run can end that the claim names
NamedOutcome ==
    result.kind \in {"completed", "TimeoutExpired"} \cup RunExceptions

\* C20: once the temporary Blender script has been written it is removed
\* again on every exit path of the conversion (exit code 0, non-zero exit
\* code, 60 s timeout, any other exception), and the function returns True
\* exactly when Blender ran to completion with exit code 0 and False in all
\* the other cases, never raising from the run step
C20_TempScriptRemoved ==
    /\ cpc \in {"returned", "raised"} => ~temp_script.exists
    /\ cpc = "returned" =>
          /\ NamedOutcome
          /\ returned \in {"True", "False"}
          /\ returned = "True" <=>
                (result.kind = "completed" /\ result.returncode = 0)
    /\ cpc = "raised" => ~NamedOutcome
    /\ cpc \in {"announce", "run", "check", "except TimeoutExpired",
                "except Exception", "finally"} =>
          temp_script = [exists |-> TRUE,
                         text |-> BlenderScript(args.fbx_path, args.glb_path)]

=============================================================================
